---------------------------- MODULE Spec2Model ----------------------------
(***************************************************************************)
(* A model of the SAT data types (src/datatypes.py) and of the token       *)
(* vocabulary (src/vocabulary.py).                                         *)
(*                                                                         *)
(* Python strings are sequences of one-character strings, so that          *)
(* formatting (str, join) and parsing (split, rstrip, int) are computed    *)
(* character by character as the code computes them.  A call either        *)
(* returns a value or raises: its outcome is a record                      *)
(* [exc, msg, val] with exc = "None" for a normal return.                  *)
(***************************************************************************)
EXTENDS Integers, Sequences, FiniteSets, TLC

VARIABLES
    input,  \* the caller's argument: [kind, ...]
    obj,    \* the object under work: [cls |-> "None"] or an instance
    wire,   \* the last serialised / encoded value: [src, s, of]
    ret     \* the last call: [op, arg, exc, msg, val]

vars == <<input, obj, wire, ret>>

(***************************************************************************)
(* Bounds of the model.                                                    *)
(***************************************************************************)
MaxAtom == 2     \* literals range over -MaxAtom..MaxAtom, and 10, -10
MaxLen == 3      \* longest list of literals handed to a constructor
MaxToks == 2     \* tokens after the first one on a line of an assignment text
MaxLines == 2    \* lines of an assignment text
MaxClauses == 2  \* clauses of a formula handed to CNFFormula
MaxComments == 1 \* comments of a formula handed to CNFFormula
MaxFLines == 3   \* lines of a DIMACS CNF text
MaxEntries == 2  \* entries of a persisted token -> id table
MaxId == 2       \* largest id of a persisted table or of a decoded sequence
MaxIds == 2      \* longest id sequence handed to from_vocab

(***************************************************************************)
(* Python strings and integers.                                            *)
(***************************************************************************)
NL == "\n"
SP == " "

Digits == <<"0", "1", "2", "3", "4", "5", "6", "7", "8", "9">>

IsDigit(ch) == \E i \in 1..10 : Digits[i] = ch

DigitVal(ch) == (CHOOSE i \in 1..10 : Digits[i] = ch) - 1

Abs(n) == IF n < 0 THEN -n ELSE n

\* str(n) for n >= 0
RECURSIVE StrNat(_)
StrNat(n) ==
    IF n < 10 THEN <<Digits[n + 1]>>
    ELSE StrNat(n \div 10) \o <<Digits[(n % 10) + 1]>>

\* str(n)
Str(n) == IF n < 0 THEN <<"-">> \o StrNat(-n) ELSE StrNat(n)

\* the value of a string of decimal digits (leading zeros allowed)
RECURSIVE NatVal(_)
NatVal(s) ==
    IF s = <<>> THEN 0
    ELSE NatVal(SubSeq(s, 1, Len(s) - 1)) * 10 + DigitVal(s[Len(s)])

\* the digits of an integer literal: the string without its sign
IntBody(s) == IF s # <<>> /\ s[1] = "-" THEN Tail(s) ELSE s

\* int(s) returns (it raises ValueError otherwise); the strings of the model
\* hold no "+", "_" or blank inside a token
IntOk(s) == IntBody(s) # <<>> /\ \A i \in 1..Len(IntBody(s)) : IsDigit(IntBody(s)[i])

\* int(s), for IntOk(s)
IntVal(s) == IF s # <<>> /\ s[1] = "-" THEN -NatVal(IntBody(s)) ELSE NatVal(IntBody(s))

\* s.isdigit()
StrIsDigit(s) == s # <<>> /\ \A i \in 1..Len(s) : IsDigit(s[i])

\* s.split(sep), sep one character: always at least one field
RECURSIVE Split(_, _)
Split(s, sep) ==
    IF \A i \in 1..Len(s) : s[i] # sep THEN <<s>>
    ELSE LET k == CHOOSE i \in 1..Len(s) :
                      s[i] = sep /\ \A j \in 1..(i - 1) : s[j] # sep
         IN <<SubSeq(s, 1, k - 1)>> \o Split(SubSeq(s, k + 1, Len(s)), sep)

\* s.rstrip(chars)
RECURSIVE RStrip(_, _)
RStrip(s, chars) ==
    IF s # <<>> /\ s[Len(s)] \in chars
    THEN RStrip(SubSeq(s, 1, Len(s) - 1), chars)
    ELSE s

\* sep.join(strs)
RECURSIVE Join(_, _)
Join(strs, sep) ==
    IF strs = <<>> THEN <<>>
    ELSE IF Len(strs) = 1 THEN strs[1]
    ELSE strs[1] \o sep \o Join(Tail(strs), sep)

\* "".join(strs)
RECURSIVE Concat(_)
Concat(strs) == IF strs = <<>> THEN <<>> ELSE strs[1] \o Concat(Tail(strs))

\* s.startswith(ch)
StartsWith(s, ch) == s # <<>> /\ s[1] = ch

\* s[2:]
From2(s) == SubSeq(s, 3, Len(s))

(***************************************************************************)
(* Outcomes of a call.                                                     *)
(***************************************************************************)
ParsingException == "ParsingException"

Return(v) == [exc |-> "None", msg |-> "", val |-> v]

Raise(e, m) == [exc |-> e, msg |-> m, val |-> <<>>]

Called(op, arg, out) ==
    [op |-> op, arg |-> arg, exc |-> out.exc, msg |-> out.msg, val |-> out.val]

NoObj == [cls |-> "None"]
NoWire == [src |-> "None", s |-> <<>>, of |-> <<>>]
NoRet == [op |-> "None", arg |-> <<>>, exc |-> "None", msg |-> "", val |-> <<>>]

(***************************************************************************)
(* Literals: Clause and SATAssignment.                                     *)
(***************************************************************************)
\* set(lits)
LitSet(lits) == {lits[i] : i \in 1..Len(lits)}

\* Literals.atoms
atoms(lits) == {Abs(lits[i]) : i \in 1..Len(lits)}

\* Literals.__init__ without the test for 0
LiteralsInit_NoZeroTest(lits) ==
    IF Cardinality(atoms(lits)) # Len(lits)
    THEN Raise(ParsingException, "Literals not distinct or a tautology")
    ELSE Return(lits)

\* Literals.__init__: the stored list, or the exception raised
LiteralsInit(lits) ==
    IF Cardinality(atoms(lits)) # Len(lits)
    THEN Raise(ParsingException, "Literals not distinct or a tautology")
    ELSE IF \E i \in 1..Len(lits) : lits[i] = 0
    THEN Raise(ParsingException, "0 cannot be a literal")
    ELSE Return(lits)

\* Literals.from_strs
from_strs(lit_strs) ==
    IF \E i \in 1..Len(lit_strs) : ~IntOk(lit_strs[i])
    THEN Raise(ParsingException, "Non-integer in literal list")
    ELSE LiteralsInit([i \in 1..Len(lit_strs) |-> IntVal(lit_strs[i])])

\* Literals.max_var: max() of an empty list raises ValueError
max_var(lits) ==
    IF lits = <<>> THEN Raise("ValueError", "max() arg is an empty sequence")
    ELSE Return(CHOOSE a \in atoms(lits) : \A b \in atoms(lits) : b <= a)

\* Literals.__eq__ on two instances of the same class
LiteralsEq(l1, l2) == LitSet(l1) = LitSet(l2)

\* Literals.__hash__: a function of frozenset(self)
LiteralsHash(lits) == LitSet(lits)

\* list.sort(key=abs) is stable: x goes after the elements whose key is <= its own
RECURSIVE InsertByAbs(_, _)
InsertByAbs(x, s) ==
    IF s = <<>> THEN <<x>>
    ELSE IF Abs(s[Len(s)]) <= Abs(x) THEN Append(s, x)
    ELSE Append(InsertByAbs(x, SubSeq(s, 1, Len(s) - 1)), s[Len(s)])

\* Literals.sort
RECURSIVE sort(_)
sort(lits) ==
    IF lits = <<>> THEN <<>>
    ELSE InsertByAbs(lits[Len(lits)], sort(SubSeq(lits, 1, Len(lits) - 1)))

\* Clause.to_str
ClauseToStr(lits) ==
    Join([i \in 1..Len(lits) |-> Str(lits[i])], <<SP>>)
        \o (IF lits # <<>> THEN <<SP>> ELSE <<>>) \o <<"0">>

\* Clause.from_str
ClauseFromStr(s) == from_strs(Split(RStrip(RStrip(s, {"0"}), {SP}), SP))

\* SATAssignment.to_str
AssignmentToStr(lits) ==
    <<"v", SP>> \o Join([i \in 1..Len(lits) |-> Str(lits[i])], <<SP>>) \o <<SP, "0">>

Min(S) == CHOOSE x \in S : \A y \in S : x <= y

\* SATAssignment.from_str, the loop over the lines from line i on, with the
\* tokens read so far in assignment
RECURSIVE ScanAssignment(_, _, _)
ScanAssignment(lines, i, assignment) ==
    IF i > Len(lines)
    THEN Raise(ParsingException, "Assignment string does not end with zero")
    ELSE IF ~StartsWith(lines[i], "v")
    THEN Raise(ParsingException, "New line does not start with v")
    ELSE LET toks == Tail(Split(lines[i], SP))
             zeros == {k \in 1..Len(toks) : toks[k] = <<"0">>}
         IN IF zeros # {}
            THEN from_strs(assignment \o SubSeq(toks, 1, Min(zeros) - 1))
            ELSE ScanAssignment(lines, i + 1, assignment \o toks)

\* SATAssignment.from_str
AssignmentFromStr(s) == ScanAssignment(Split(s, NL), 1, <<>>)

(***************************************************************************)
(* CNFFormula: [clauses, comments]; a clause is its list of literals.      *)
(* _num_vars is None on every instance (__init__ sets it, nothing assigns  *)
(* it), so nbvars always takes the branch that computes the maximum.       *)
(***************************************************************************)
\* CNFFormula.__init__
CNFFormula(clauses, comments) == [clauses |-> clauses, comments |-> comments]

\* CNFFormula.nbclauses
nbclauses(f) == Len(f.clauses)

\* CNFFormula.nbvars: max() over the clauses' max_var; max() raises ValueError
\* on no clause, and max_var raises it on an empty clause
nbvars(f) ==
    IF f.clauses = <<>> \/ \E i \in 1..Len(f.clauses) : f.clauses[i] = <<>>
    THEN Raise("ValueError", "max() arg is an empty sequence")
    ELSE LET ms == {max_var(f.clauses[i]).val : i \in 1..Len(f.clauses)}
         IN Return(CHOOSE a \in ms : \A b \in ms : b <= a)

\* CNFFormula.__eq__: set(self.clauses) == set(value.clauses), with the
\* clauses hashed and compared as sets of literals
FormulaEq(f, g) ==
    {LiteralsHash(f.clauses[i]) : i \in 1..Len(f.clauses)}
        = {LiteralsHash(g.clauses[i]) : i \in 1..Len(g.clauses)}

\* the value of nbvars and nbclauses in from_str before a header is read
Unset == -1

\* CNFFormula.from_str: the body of the loop on one line; st holds the locals
\* nbvars, nbclauses, clauses, comments and the exception raised, if any
ParseLine(st, line) ==
    IF st.exc # "None" THEN st
    ELSE IF StartsWith(line, "c")
    THEN [st EXCEPT !.comments = Append(@, From2(line))]
    ELSE IF StartsWith(line, "p")
    THEN LET header == Split(line, SP)
             fail(e, m) == [st EXCEPT !.exc = e, !.msg = m]
         IN IF st.nbvars # Unset \/ st.nbclauses # Unset
            THEN fail(ParsingException, "could not read header")
            ELSE IF Len(header) < 2
            THEN fail("IndexError", "list index out of range")
            ELSE IF header[2] # <<"c", "n", "f">>
            THEN fail(ParsingException, "could not read header")
            ELSE IF Len(header) < 3
            THEN fail("IndexError", "list index out of range")
            ELSE IF ~IntOk(header[3])
            THEN fail("ValueError", "invalid literal for int()")
            ELSE IF Len(header) < 4
            THEN fail("IndexError", "list index out of range")
            ELSE IF ~IntOk(header[4])
            THEN fail("ValueError", "invalid literal for int()")
            ELSE [st EXCEPT !.nbvars = IntVal(header[3]),
                            !.nbclauses = IntVal(header[4])]
    ELSE LET c == ClauseFromStr(line)
         IN IF c.exc # "None"
            THEN [st EXCEPT !.exc = c.exc, !.msg = c.msg]
            ELSE [st EXCEPT !.clauses = Append(@, c.val)]

\* CNFFormula.from_str: the loop over the lines
RECURSIVE ParseLines(_, _)
ParseLines(st, lines) ==
    IF lines = <<>> THEN st
    ELSE ParseLines(ParseLine(st, lines[1]), Tail(lines))

\* CNFFormula.from_str: the formula is built from the clauses alone
FormulaFromStr(from_str) ==
    LET st == ParseLines([nbvars |-> Unset, nbclauses |-> Unset, clauses |-> <<>>,
                          comments |-> <<>>, exc |-> "None", msg |-> ""],
                         Split(RStrip(from_str, {NL, SP}), NL))
        formula == CNFFormula(st.clauses, <<>>)
    IN IF st.exc # "None" THEN Raise(st.exc, st.msg)
       ELSE IF st.nbclauses = Unset \/ st.nbvars = Unset
       THEN Raise(ParsingException, "No header found")
       ELSE IF st.nbclauses # nbclauses(formula)
       THEN Raise(ParsingException,
                  "Specified number of clauses does not match parsed number of clauses")
       ELSE IF nbvars(formula).exc # "None"
       THEN Raise(nbvars(formula).exc, nbvars(formula).msg)
       ELSE IF st.nbvars # nbvars(formula).val
       THEN Raise(ParsingException,
                  "Specified number of variables does not match parsed number of variables")
       ELSE Return(formula)

\* CNFFormula.to_str
FormulaToStr(f) ==
    LET comment_str ==
            Concat([i \in 1..Len(f.comments) |-> <<"c", SP>> \o f.comments[i] \o <<NL>>])
        clause_str ==
            Concat([i \in 1..Len(f.clauses) |-> ClauseToStr(f.clauses[i]) \o <<NL>>])
    IN IF nbvars(f).exc # "None" THEN Raise(nbvars(f).exc, nbvars(f).msg)
       ELSE Return(comment_str
                   \o <<"p", SP, "c", "n", "f", SP>> \o Str(nbvars(f).val)
                   \o <<SP>> \o Str(nbclauses(f)) \o <<NL>>
                   \o clause_str)

(***************************************************************************)
(* Vocabulary: mapping is a dict, a sequence of <<key, value>> entries in  *)
(* insertion order with pairwise distinct keys.                            *)
(***************************************************************************)
\* Vocabulary.padding
padding == 0

\* the characters of the model in code point order
CodeOrder == <<NL, SP, "-", "0", "1", "2", "3", "4", "5", "6", "7", "8", "9",
               "a", "b", "c", "d", "f", "n", "o", "p", "t", "v", "x">>

CharCode(ch) == CHOOSE i \in 1..Len(CodeOrder) : CodeOrder[i] = ch

\* s < t on Python strings
RECURSIVE StrLess(_, _)
StrLess(s, t) ==
    IF t = <<>> THEN FALSE
    ELSE IF s = <<>> THEN TRUE
    ELSE IF s[1] # t[1] THEN CharCode(s[1]) < CharCode(t[1])
    ELSE StrLess(Tail(s), Tail(t))

\* sorted(S, reverse=True) of a set of strings
RECURSIVE SortedReverse(_)
SortedReverse(S) ==
    IF S = {} THEN <<>>
    ELSE LET m == CHOOSE x \in S : \A y \in S : y = x \/ StrLess(y, x)
         IN <<m>> \o SortedReverse(S \ {m})

\* [str(t) for t in sorted(int(t) for t in S)] of a set of digit strings: one
\* integer per token, so two tokens of one value give the same string twice
RECURSIVE SortedInts(_)
SortedInts(S) ==
    IF S = {} THEN <<>>
    ELSE LET m == CHOOSE x \in S : \A y \in S : NatVal(x) <= NatVal(y)
         IN <<Str(NatVal(m))>> \o SortedInts(S \ {m})

\* d[k] = v on a dict: a key already there keeps its place
DictSet(d, k, v) ==
    IF \E i \in 1..Len(d) : d[i][1] = k
    THEN [i \in 1..Len(d) |-> IF d[i][1] = k THEN <<k, v>> ELSE d[i]]
    ELSE Append(d, <<k, v>>)

Keys(d) == {d[i][1] : i \in 1..Len(d)}

Values(d) == {d[i][2] : i \in 1..Len(d)}

\* d[k], for k in d
DictGet(d, k) == d[CHOOSE i \in 1..Len(d) : d[i][1] = k][2]

\* {item: idx + 1 for idx, item in enumerate(items)}, with the first n items done
RECURSIVE Enumerated(_, _)
Enumerated(items, n) ==
    IF n = 0 THEN <<>>
    ELSE DictSet(Enumerated(items, n - 1), items[n], n)

\* Vocabulary.collect_vocab, from the set of tokens gathered from the samples
collect_vocab(tokens) ==
    LET sorted_tokens == SortedReverse({t \in tokens : ~StrIsDigit(t)})
                             \o SortedInts({t \in tokens : StrIsDigit(t)})
    IN Enumerated(sorted_tokens, Len(sorted_tokens))

\* Vocabulary.__len__
VocabLen(mapping) == Len(mapping) + 1

\* Vocabulary.to_vocab: the first token outside the mapping raises
to_vocab(mapping, tokens) ==
    IF \E i \in 1..Len(tokens) : tokens[i] \notin Keys(mapping)
    THEN Raise("ValueError", "Unable to read token")
    ELSE Return([i \in 1..Len(tokens) |-> DictGet(mapping, tokens[i])])

\* rev = {v: k for k, v in mapping.items()}, with the first n entries done
RECURSIVE Reversed(_, _)
Reversed(mapping, n) ==
    IF n = 0 THEN <<>>
    ELSE DictSet(Reversed(mapping, n - 1), mapping[n][2], mapping[n][1])

\* Vocabulary.from_vocab: the first id outside rev raises
from_vocab(mapping, vocab) ==
    LET rev == Reversed(mapping, Len(mapping))
    IN IF \E i \in 1..Len(vocab) : vocab[i] \notin Keys(rev)
       THEN Raise("ValueError", "Unable to read id")
       ELSE Return([i \in 1..Len(vocab) |-> DictGet(rev, vocab[i])])

(***************************************************************************)
(* The caller's arguments.                                                 *)
(***************************************************************************)
LitValues == (-MaxAtom..MaxAtom) \cup {10, -10}

RECURSIVE SeqsUpTo(_, _)
SeqsUpTo(S, n) ==
    IF n = 0 THEN {<<>>}
    ELSE LET shorter == SeqsUpTo(S, n - 1)
         IN shorter \cup {Append(s, x) : s \in {t \in shorter : Len(t) = n - 1}, x \in S}

LitLists == SeqsUpTo(LitValues, MaxLen)

LiteralsClasses == {"Clause", "SATAssignment"}

(***************************************************************************)
(* Operations on literal sets.                                             *)
(***************************************************************************)
InitLiterals ==
    /\ input \in [kind : {"lits"}, lits : LitLists]
    /\ obj = NoObj
    /\ wire = NoWire
    /\ ret = NoRet

\* cls(lits): a failed construction leaves no object behind
LiteralsNew(cls) ==
    /\ input.kind = "lits"
    /\ LET out == LiteralsInit(input.lits)
       IN /\ ret' = Called("__init__", input.lits, out)
          /\ obj' = IF out.exc = "None" THEN [cls |-> cls, lits |-> out.val] ELSE obj
    /\ UNCHANGED <<input, wire>>

\* obj.sort()
LiteralsSort ==
    /\ obj.cls \in LiteralsClasses
    /\ obj' = [obj EXCEPT !.lits = sort(obj.lits)]
    /\ ret' = Called("sort", obj.lits, Return(<<>>))
    /\ UNCHANGED <<input, wire>>

\* obj.to_str() of a Clause
ClauseToStrCall ==
    /\ obj.cls = "Clause"
    /\ wire' = [src |-> "Clause.to_str", s |-> ClauseToStr(obj.lits), of |-> obj.lits]
    /\ ret' = Called("Clause.to_str", obj.lits, Return(ClauseToStr(obj.lits)))
    /\ UNCHANGED <<input, obj>>

\* Clause.from_str(s) of the serialised clause
ClauseFromStrCall ==
    /\ wire.src = "Clause.to_str"
    /\ ret' = Called("Clause.from_str", wire.s, ClauseFromStr(wire.s))
    /\ UNCHANGED <<input, obj, wire>>

\* Texts handed to SATAssignment.from_fields: lines of space-separated tokens
ATokens == {<<"1">>, <<"-", "2">>, <<"0">>, <<"x">>, <<>>}

AHeads == {<<"v">>, <<"1">>}

ALines == {Join(<<h>> \o t, <<SP>>) : h \in AHeads, t \in SeqsUpTo(ATokens, MaxToks)}

ATexts == SeqsUpTo(ALines, MaxLines) \ {<<>>}

InitAssignment ==
    /\ input \in [kind : {"lits"}, lits : LitLists] \cup [kind : {"text"}, lines : ATexts]
    /\ obj = NoObj
    /\ wire = NoWire
    /\ ret = NoRet

\* obj.to_str() of a SATAssignment
AssignmentToStrCall ==
    /\ obj.cls = "SATAssignment"
    /\ wire' = [src |-> "SATAssignment.to_str", s |-> AssignmentToStr(obj.lits),
                of |-> obj.lits]
    /\ ret' = Called("SATAssignment.to_str", obj.lits, Return(AssignmentToStr(obj.lits)))
    /\ UNCHANGED <<input, obj>>

\* SATAssignment.from_str(s) of the serialised assignment
AssignmentFromStrCall ==
    /\ wire.src = "SATAssignment.to_str"
    /\ ret' = Called("SATAssignment.from_str", wire.s, AssignmentFromStr(wire.s))
    /\ UNCHANGED <<input, obj, wire>>

\* SATAssignment.from_fields(assignment=text) of the caller's text
AssignmentFromFields ==
    /\ input.kind = "text"
    /\ LET s == Join(input.lines, <<NL>>)
       IN /\ wire' = [src |-> "input", s |-> s, of |-> <<>>]
          /\ ret' = Called("SATAssignment.from_fields", s, AssignmentFromStr(s))
    /\ UNCHANGED <<input, obj>>

NextAssignment ==
    \/ LiteralsNew("SATAssignment")
    \/ LiteralsSort
    \/ AssignmentToStrCall
    \/ AssignmentFromStrCall
    \/ AssignmentFromFields

SpecAssignment == InitAssignment /\ [][NextAssignment]_vars

\* Formulas handed to CNFFormula: lists of clauses the Clause constructor accepts
FClauses == {<<>>, <<1>>, <<-1, 2>>, <<2, -1>>, <<10>>}

FComments == {<<"n", "o", "t", "e">>, <<>>, <<"a", NL, "2", SP, "0">>}

\* Lines of the texts handed to CNFFormula.from_fields
HeaderLine(nv, nc) == <<"p", SP, "c", "n", "f", SP>> \o Str(nv) \o <<SP>> \o Str(nc)

FLines ==
    {<<"c", SP, "n", "o", "t", "e">>, <<"c">>}
    \cup {HeaderLine(h[1], h[2]) :
              h \in {<<-1, -1>>, <<0, 0>>, <<1, 1>>, <<2, 1>>, <<2, 0>>, <<2, 2>>}}
    \cup {<<"p">>, <<"p", SP, "d", "n", "f", SP, "1", SP, "1">>,
          <<"p", SP, "c", "n", "f", SP, "x", SP, "1">>}
    \cup {<<"1", SP, "0">>, <<"1", SP, "-", "2", SP, "0">>, <<"2", SP, "0">>,
          <<"0">>, <<"x", SP, "0">>}

FTails == {<<>>, <<NL>>}

InitFormula ==
    /\ input \in [kind : {"formula"}, clauses : SeqsUpTo(FClauses, MaxClauses),
                  comments : SeqsUpTo(FComments, MaxComments)]
              \cup [kind : {"text"}, lines : SeqsUpTo(FLines, MaxFLines) \ {<<>>},
                    tail : FTails]
    /\ obj = NoObj
    /\ wire = NoWire
    /\ ret = NoRet

\* CNFFormula(clauses, comments)
FormulaNew ==
    /\ input.kind = "formula"
    /\ obj' = [cls |-> "CNFFormula", f |-> CNFFormula(input.clauses, input.comments)]
    /\ ret' = Called("CNFFormula", input.clauses, Return(<<>>))
    /\ UNCHANGED <<input, wire>>

\* obj.to_str() of a CNFFormula
FormulaToStrCall ==
    /\ obj.cls = "CNFFormula"
    /\ LET out == FormulaToStr(obj.f)
       IN /\ ret' = Called("CNFFormula.to_str", obj.f, out)
          /\ wire' = IF out.exc = "None"
                     THEN [src |-> "CNFFormula.to_str", s |-> out.val, of |-> obj.f]
                     ELSE wire
    /\ UNCHANGED <<input, obj>>

\* CNFFormula.from_str(s) of the serialised formula
FormulaFromStrCall ==
    /\ wire.src = "CNFFormula.to_str"
    /\ ret' = Called("CNFFormula.from_str", wire.s, FormulaFromStr(wire.s))
    /\ UNCHANGED <<input, obj, wire>>

\* CNFFormula.from_fields(formula=text) of the caller's text
FormulaFromFields ==
    /\ input.kind = "text"
    /\ LET s == Join(input.lines, <<NL>>) \o input.tail
       IN /\ wire' = [src |-> "input", s |-> s, of |-> <<>>]
          /\ ret' = Called("CNFFormula.from_fields", s, FormulaFromStr(s))
    /\ UNCHANGED <<input, obj>>

NextFormula ==
    \/ FormulaNew
    \/ FormulaToStrCall
    \/ FormulaFromStrCall
    \/ FormulaFromFields

SpecFormula == InitFormula /\ [][NextFormula]_vars

\* Tokens of a corpus or of a persisted table
VTokens == {<<"a">>, <<"b">>, <<"-", "1">>, <<"1">>, <<"0", "1">>, <<"2">>, <<"1", "0">>}

\* Persisted tables, as json.load returns them: distinct keys, integer values
Tables ==
    {d \in SeqsUpTo(VTokens \X (0..MaxId), MaxEntries) :
        \A i, j \in 1..Len(d) : i # j => d[i][1] # d[j][1]}

InitVocabulary ==
    /\ input \in [kind : {"corpus"}, tokens : SUBSET VTokens]
              \cup [kind : {"table"}, table : Tables]
    /\ obj = NoObj
    /\ wire = NoWire
    /\ ret = NoRet

\* Vocabulary(vocab_location=...): the mapping is the table read
VocabularyLoad ==
    /\ input.kind = "table"
    /\ obj' = [cls |-> "Vocabulary", mapping |-> input.table]
    /\ ret' = Called("Vocabulary", input.table, Return(<<>>))
    /\ UNCHANGED <<input, wire>>

\* Vocabulary(dataset_location=...): the mapping is collected
VocabularyCollect ==
    /\ input.kind = "corpus"
    /\ obj' = [cls |-> "Vocabulary", mapping |-> collect_vocab(input.tokens)]
    /\ ret' = Called("Vocabulary", input.tokens, Return(<<>>))
    /\ UNCHANGED <<input, wire>>

\* len(obj)
VocabularyLen ==
    /\ obj.cls = "Vocabulary"
    /\ ret' = Called("__len__", <<>>, Return(VocabLen(obj.mapping)))
    /\ UNCHANGED <<input, obj, wire>>

\* obj.to_vocab([token])
ToVocabCall(token) ==
    /\ obj.cls = "Vocabulary"
    /\ LET out == to_vocab(obj.mapping, <<token>>)
       IN /\ ret' = Called("to_vocab", <<token>>, out)
          /\ wire' = IF out.exc = "None"
                     THEN [src |-> "to_vocab", s |-> out.val, of |-> <<token>>]
                     ELSE wire
    /\ UNCHANGED <<input, obj>>

\* obj.from_vocab(ids) of the ids to_vocab returned
FromVocabCall ==
    /\ obj.cls = "Vocabulary"
    /\ wire.src = "to_vocab"
    /\ ret' = Called("from_vocab", wire.s, from_vocab(obj.mapping, wire.s))
    /\ UNCHANGED <<input, obj, wire>>

\* obj.from_vocab(ids) of ids the caller chooses
FromVocabIds(ids) ==
    /\ obj.cls = "Vocabulary"
    /\ wire' = [src |-> "input", s |-> ids, of |-> <<>>]
    /\ ret' = Called("from_vocab", ids, from_vocab(obj.mapping, ids))
    /\ UNCHANGED <<input, obj>>

NextVocabulary ==
    \/ VocabularyLoad
    \/ VocabularyCollect
    \/ VocabularyLen
    \/ \E token \in VTokens : ToVocabCall(token)
    \/ FromVocabCall
    \/ \E ids \in SeqsUpTo(0..MaxId, MaxIds) : FromVocabIds(ids)

SpecVocabulary == InitVocabulary /\ [][NextVocabulary]_vars

NextLiterals ==
    \/ \E cls \in LiteralsClasses : LiteralsNew(cls)
    \/ LiteralsSort
    \/ ClauseToStrCall
    \/ ClauseFromStrCall

SpecLiterals == InitLiterals /\ [][NextLiterals]_vars

(***************************************************************************)
(* Properties of literal sets.                                             *)
(***************************************************************************)
\* no zero literal and no two literals with the same atom
ValidLits(lits) ==
    /\ \A i \in 1..Len(lits) : lits[i] # 0
    /\ \A i, j \in 1..Len(lits) : i # j => Abs(lits[i]) # Abs(lits[j])

AscendingByAtom(lits) == \A i \in 1..(Len(lits) - 1) : Abs(lits[i]) < Abs(lits[i + 1])

\* C9: a Clause or SATAssignment is constructed from a list of integers if and
\* only if no element is zero and no two elements share an absolute value, and
\* otherwise the constructor raises ParsingException and leaves no object; every
\* existing literal set has no zero literal and no two literals of one atom; sort
\* keeps the set of literals (so equality and hash) and orders them ascending
\* by atom.
C9_LiteralSetInvariant ==
    /\ ret.op = "__init__" =>
          /\ (ret.exc = "None") <=> ValidLits(ret.arg)
          /\ ret.exc \in {"None", ParsingException}
          /\ ret.exc = "None" => obj.cls \in LiteralsClasses /\ obj.lits = ret.arg
          /\ ret.exc # "None" => obj.cls = "None"
    /\ obj.cls \in LiteralsClasses => ValidLits(obj.lits)
    /\ ret.op = "sort" =>
          /\ LitSet(obj.lits) = LitSet(ret.arg)
          /\ Len(obj.lits) = Len(ret.arg)
          /\ LiteralsEq(obj.lits, ret.arg)
          /\ LiteralsHash(obj.lits) = LiteralsHash(ret.arg)
          /\ AscendingByAtom(obj.lits)

\* a sort that reordered three literals
C9_Witness == ret.op = "sort" /\ Len(ret.arg) = 3 /\ obj.lits # ret.arg

\* C3: Clause.from_str(c.to_str()) returns a Clause set-equal to c, for every
\* clause c the constructor accepts, the empty one included.
C3_ClauseRoundTrip ==
    ret.op = "Clause.from_str" => ret.exc = "None" /\ LiteralsEq(ret.val, wire.of)

(***************************************************************************)
(* Properties of SATAssignment.from_str.                                   *)
(***************************************************************************)
\* the tokens of a line after its first one
LineToks(line) == Tail(Split(line, SP))

HasZero(line) == \E k \in 1..Len(LineToks(line)) : LineToks(line)[k] = <<"0">>

\* the tokens of a line before its first token 0
BeforeZero(line) ==
    SubSeq(LineToks(line), 1,
           Min({k \in 1..Len(LineToks(line)) : LineToks(line)[k] = <<"0">>}) - 1)

\* the lines scanned: up to the first line holding a token 0, all if none does
Scanned(lines) ==
    IF \E i \in 1..Len(lines) : HasZero(lines[i])
    THEN Min({i \in 1..Len(lines) : HasZero(lines[i])})
    ELSE Len(lines)

\* the outcome the scan rule gives for the lines of a text
ScanRule(lines) ==
    LET n == Scanned(lines)
    IN IF \E i \in 1..n : ~StartsWith(lines[i], "v")
       THEN Raise(ParsingException, "New line does not start with v")
       ELSE IF ~HasZero(lines[n])
       THEN Raise(ParsingException, "Assignment string does not end with zero")
       ELSE from_strs(Concat([i \in 1..(n - 1) |-> LineToks(lines[i])])
                          \o BeforeZero(lines[n]))

\* the scan rule holds of every text parsed
C10_ScanRule ==
    ret.op = "SATAssignment.from_fields" =>
        /\ ret.exc = ScanRule(input.lines).exc
        /\ ret.msg = ScanRule(input.lines).msg
        /\ ret.val = ScanRule(input.lines).val

\* C10: SATAssignment.from_str stops at the first token 0, raises on a line
\* without the marker v up to there or when no 0 is found, and otherwise yields
\* the tokens before that 0 in order, whatever follows; and for every
\* assignment a, the empty one included, from_str(a.to_str()) yields the
\* literals of a in the same order.
C10_AssignmentParse ==
    /\ C10_ScanRule
    /\ ret.op = "SATAssignment.from_str" => ret.exc = "None" /\ ret.val = wire.of

(***************************************************************************)
(* Properties of CNFFormula.                                               *)
(***************************************************************************)
\* the remainders, after the two-character prefix, of the lines starting with c
RECURSIVE CommentsOf(_)
CommentsOf(lines) ==
    IF lines = <<>> THEN <<>>
    ELSE IF StartsWith(lines[1], "c") THEN <<From2(lines[1])>> \o CommentsOf(Tail(lines))
    ELSE CommentsOf(Tail(lines))

\* C1: the formula parsed from a text carries as comments the remainders of
\* the lines starting with c, in the order of the lines.
C1_CommentsKept ==
    (ret.op = "CNFFormula.from_fields" /\ ret.exc = "None")
        => ret.val.comments = CommentsOf(input.lines)

\* the clauses are pairwise distinct (as Clauses: as sets of literals)
PairwiseDistinct(clauses) ==
    \A i, j \in 1..Len(clauses) : i # j => ~LiteralsEq(clauses[i], clauses[j])

\* C2: for a formula f with pairwise distinct clauses (the empty clause and any
\* comments allowed), f.to_str() returns and CNFFormula.from_str of it returns a
\* formula equal to f.
C2_FormulaRoundTrip ==
    /\ (ret.op = "CNFFormula.to_str" /\ PairwiseDistinct(ret.arg.clauses))
          => ret.exc = "None"
    /\ (ret.op = "CNFFormula.from_str" /\ PairwiseDistinct(wire.of.clauses))
          => ret.exc = "None" /\ FormulaEq(ret.val, wire.of)

HeaderLines(lines) == {i \in 1..Len(lines) : StartsWith(lines[i], "p")}

ClauseLines(lines) ==
    {i \in 1..Len(lines) : ~StartsWith(lines[i], "p") /\ ~StartsWith(lines[i], "c")}

\* the line reads p cnf <integer> <integer>
IntegerHeader(line) ==
    /\ Len(Split(line, SP)) = 4
    /\ Split(line, SP)[1] = <<"p">>
    /\ Split(line, SP)[2] = <<"c", "n", "f">>
    /\ IntOk(Split(line, SP)[3])
    /\ IntOk(Split(line, SP)[4])

Declared(line) == <<IntVal(Split(line, SP)[3]), IntVal(Split(line, SP)[4])>>

\* the largest atom of the clause lines, zero when there is none
MaxAtomOf(lines) ==
    LET as == UNION {atoms(ClauseFromStr(lines[i]).val) : i \in ClauseLines(lines)}
    IN IF as = {} THEN 0 ELSE CHOOSE a \in as : \A b \in as : b <= a

\* exactly one header, declaring counts >= 0, the clause lines parse, and the
\* declared clause count is their number
OneHeaderCountMatching(lines) ==
    /\ Cardinality(HeaderLines(lines)) = 1
    /\ \A i \in HeaderLines(lines) :
          /\ IntegerHeader(lines[i])
          /\ Declared(lines[i])[1] >= 0
          /\ Declared(lines[i])[2] = Cardinality(ClauseLines(lines))
    /\ \A i \in ClauseLines(lines) : ClauseFromStr(lines[i]).exc = "None"

\* C4: on a text with one well-formed header and a matching clause count,
\* from_str returns a formula when the declared variable count is the largest
\* atom of the clauses (zero for no clause) and raises ParsingException (the
\* variable counts do not match) otherwise; nothing else is raised.
C4_VarCountDecides ==
    (ret.op = "CNFFormula.from_fields" /\ OneHeaderCountMatching(input.lines)) =>
        LET declared == Declared(input.lines[CHOOSE i \in HeaderLines(input.lines) : TRUE])[1]
        IN IF declared = MaxAtomOf(input.lines)
           THEN ret.exc = "None"
           ELSE /\ ret.exc = ParsingException
                /\ ret.msg = "Specified number of variables does not match parsed number of variables"

\* C5: a text with more than one header line, whatever integers the headers
\* declare, is never parsed: from_str raises ParsingException.  (Stated of the
\* texts that hold a clause line: without one the parse ends in the ValueError
\* of nbvars, whatever the headers.)
C5_DuplicateHeader ==
    (/\ ret.op = "CNFFormula.from_fields"
     /\ Cardinality(HeaderLines(input.lines)) > 1
     /\ ClauseLines(input.lines) # {}
     /\ \A i \in HeaderLines(input.lines) : IntegerHeader(input.lines[i]))
        => ret.exc = ParsingException

(***************************************************************************)
(* Properties of Vocabulary.                                               *)
(***************************************************************************)
\* C6: for every vocabulary, collected or loaded from a persisted table, and
\* every token t of its mapping, from_vocab(to_vocab([t])) = [t].
C6_EncodeDecode ==
    (ret.op = "from_vocab" /\ wire.src = "to_vocab")
        => ret.exc = "None" /\ ret.val = wire.of

\* C7: in every vocabulary, collected or loaded, no token has the padding id 0,
\* and from_vocab of ids containing 0 raises and returns nothing.
C7_PaddingReserved ==
    obj.cls = "Vocabulary" =>
        /\ padding \notin Values(obj.mapping)
        /\ (ret.op = "from_vocab" /\ \E i \in 1..Len(ret.arg) : ret.arg[i] = padding)
              => ret.exc = "ValueError" /\ ret.val = <<>>

\* C8: the mapping collected from a corpus of distinct tokens T has domain T
\* and ids 1..|T|, the non-numeric tokens first in descending order, then the
\* numeric tokens ascending by value, and len() is |T| + 1.
C8_CollectedIds ==
    (obj.cls = "Vocabulary" /\ input.kind = "corpus") =>
        LET T == input.tokens
            m == obj.mapping
        IN /\ Keys(m) = T
           /\ Values(m) = 1..Cardinality(T)
           /\ \A s, t \in Keys(m) :
                 /\ (~StrIsDigit(s) /\ StrIsDigit(t)) => DictGet(m, s) < DictGet(m, t)
                 /\ (~StrIsDigit(s) /\ ~StrIsDigit(t) /\ StrLess(t, s))
                       => DictGet(m, s) < DictGet(m, t)
                 /\ (StrIsDigit(s) /\ StrIsDigit(t) /\ NatVal(s) < NatVal(t))
                       => DictGet(m, s) < DictGet(m, t)
           /\ ret.op = "__len__" => ret.val = Cardinality(T) + 1

=============================================================================
